---------------------------- MODULE Spec2Model ----------------------------
(***************************************************************************)
(* Model of the Prana recuperator integration                              *)
(* (custom_components/prana_recuperator): the device client (api.py), the  *)
(* coordinator (coordinator.py) with its command lock and retry loop, and  *)
(* the entity entry points that decide whether a command is issued         *)
(* (switch.py, number.py).  A fake device that applies every accepted      *)
(* write stands for the real one.                                          *)
(*                                                                         *)
(* Exceptions are named as in the code: PranaConnectionError is a subclass *)
(* of PranaApiError; an invalid argument is a ValueError; a 2xx body that  *)
(* does not decode is a JSONDecodeError, which api._request lets through.  *)
(***************************************************************************)
EXTENDS Integers, Sequences, FiniteSets, TLC

\* ------------------------------------------------------------ bounds
\* Number of consumer tasks that issue requests concurrently.
NumTasks == 2

\* ------------------------------------------------------------ const.py
FAN_TYPE_SUPPLY == "supply"
FAN_TYPE_EXTRACT == "extract"
FAN_TYPE_BOUNDED == "bounded"
SPEED_STEP == 10
MAX_RETRIES == 3

FanTypes == {FAN_TYPE_SUPPLY, FAN_TYPE_EXTRACT, FAN_TYPE_BOUNDED}
valid_switches == {"bound", "heater", "night", "boost", "auto", "auto_plus", "winter"}
valid_brightness == {0, 1, 2, 4, 8, 16, 32}

\* BRIGHTNESS_LEVELS: level -> raw value.
BRIGHTNESS_LEVELS == (0 :> 0) @@ (1 :> 1) @@ (2 :> 2) @@ (3 :> 4) @@ (4 :> 8) @@ (5 :> 16) @@ (6 :> 32)

\* BRIGHTNESS_LEVELS.get(level, 32)
BrightnessRaw(level) == IF level \in DOMAIN BRIGHTNESS_LEVELS THEN BRIGHTNESS_LEVELS[level] ELSE 32

\* BRIGHTNESS_VALUES = {v: k for k, v in BRIGHTNESS_LEVELS.items()}: of the
\* levels with the same raw value the last one stays.
BRIGHTNESS_VALUES ==
    [v \in {BRIGHTNESS_LEVELS[k] : k \in DOMAIN BRIGHTNESS_LEVELS} |->
       CHOOSE k \in DOMAIN BRIGHTNESS_LEVELS :
         /\ BRIGHTNESS_LEVELS[k] = v
         /\ \A j \in DOMAIN BRIGHTNESS_LEVELS : BRIGHTNESS_LEVELS[j] = v => j <= k]

\* ------------------------------------------------------------ values
\* Python's None is the empty tuple, a present value v is <<v>>.
None == <<>>
Some(v) == <<v>>

Tasks == 1..NumTasks

\* A coordinator command: the method and its arguments (unused ones at a default).
Cmd(op, speed, fan, sw, value, brightness) ==
    [op |-> op, speed |-> speed, fan |-> fan, sw |-> sw, value |-> value, brightness |-> brightness]
SetSpeedCmd(speed, fan) == Cmd("set_speed", speed, fan, "-", FALSE, 0)
SetFanOnCmd(value, fan) == Cmd("set_speed_is_on", 0, fan, "-", value, 0)
SetSwitchCmd(sw, value) == Cmd("set_switch", 0, "-", sw, value, 0)
SetBrightnessCmd(b) == Cmd("set_brightness", 0, "-", "-", FALSE, b)
ForceRefreshCmd == Cmd("force_refresh", 0, "-", "-", FALSE, 0)
NoCmd == Cmd("none", 0, "-", "-", FALSE, 0)

\* ------------------------------------------------------------ api.py: transport
\* What one HTTP exchange can end in (aiohttp's view of it).
\*   json         2xx with a JSON body
\*   no_content   2xx with an empty / non-JSON-typed body (ContentTypeError on .json())
\*   bad_json     2xx, JSON content type, body that does not decode (JSONDecodeError)
\*   connector    aiohttp.ClientConnectorError (device unreachable)
\*   timeout      asyncio.TimeoutError
\*   status       non-2xx status: raise_for_status() -> ClientResponseError
\*   client       any other aiohttp.ClientError (e.g. server disconnected)
Outcomes == {"json", "no_content", "bad_json", "connector", "timeout", "status", "client"}

\* The device handled the request (it answered 2xx) in these outcomes.
Handled(o) == o \in {"json", "no_content", "bad_json"}

ApiErrors == {"PranaApiError", "PranaConnectionError"}

\* PranaApiClient._request: the class of what it returns or raises.
\* "ok" is a returned dict.  ContentTypeError is a ClientResponseError, so a GET
\* with no JSON body is a PranaApiError while a POST returns {}.
_request(method, o) ==
    CASE o = "json" -> "ok"
      [] o = "no_content" -> IF method = "GET" THEN "PranaApiError" ELSE "ok"
      [] o = "bad_json" -> "JSONDecodeError"
      [] o = "connector" -> "PranaConnectionError"
      [] o = "status" -> "PranaApiError"
      [] o = "client" -> "PranaApiError"
      [] o = "timeout" -> "PranaConnectionError"

\* ------------------------------------------------------------ api.py: PranaState
\* The fake device's state, which is also the JSON object it returns from getState.
DeviceInit ==
    [speed |-> [f \in FanTypes |-> 0],
     is_on |-> [f \in FanTypes |-> FALSE],
     sw |-> [s \in valid_switches |-> FALSE],
     brightness |-> 32]

\* PranaState.from_api_response: the snapshot built from a getState payload.
from_api_response(payload) ==
    [speed |-> [f \in FanTypes |-> payload.speed[f]],
     is_on |-> [f \in FanTypes |-> payload.is_on[f]],
     sw |-> [s \in valid_switches |-> payload.sw[s]],
     brightness |-> IF "brightness" \in DOMAIN payload THEN payload.brightness ELSE 6]

\* PranaState.get_speed_percentage: int((speed / max_speed) * 100), which for
\* these non-negative values is the quotient rounded down.
get_speed_percentage(state, fan_type) ==
    LET speed == IF fan_type = FAN_TYPE_EXTRACT THEN state.speed[FAN_TYPE_EXTRACT]
                 ELSE IF fan_type = FAN_TYPE_SUPPLY THEN state.speed[FAN_TYPE_SUPPLY]
                 ELSE state.speed[FAN_TYPE_BOUNDED]
        max_speed == IF fan_type = FAN_TYPE_EXTRACT THEN state.max_speed[FAN_TYPE_EXTRACT]
                     ELSE IF fan_type = FAN_TYPE_SUPPLY THEN state.max_speed[FAN_TYPE_SUPPLY]
                     ELSE state.max_speed[FAN_TYPE_BOUNDED]
    IN IF max_speed = 0 THEN 0 ELSE (speed * 100) \div max_speed

\* PranaState.is_fan_on
is_fan_on(state, fan_type) ==
    IF fan_type = FAN_TYPE_EXTRACT THEN state.is_on[FAN_TYPE_EXTRACT]
    ELSE IF fan_type = FAN_TYPE_SUPPLY THEN state.is_on[FAN_TYPE_SUPPLY]
    ELSE state.is_on[FAN_TYPE_BOUNDED]

\* ------------------------------------------------------------ api.py: write operations
\* Each write operation either raises ValueError before any request, or issues one
\* POST.  The result says which: whether it raised, and the endpoints it posted to.
Raises == [raises |-> TRUE, requests |-> <<>>]
Posts(endpoint) == [raises |-> FALSE, requests |-> <<endpoint>>]

\* A set_speed that forgets the upper limit.
set_speed_NoUpperLimit(speed, fan_type) ==
    IF speed % 10 # 0 \/ speed < 0 THEN Raises
    ELSE IF fan_type \notin {FAN_TYPE_SUPPLY, FAN_TYPE_EXTRACT, FAN_TYPE_BOUNDED} THEN Raises
    ELSE Posts("setSpeed")

\* PranaApiClient.set_speed
set_speed(speed, fan_type) ==
    IF speed % 10 # 0 \/ speed < 0 \/ speed > 60 THEN Raises
    ELSE IF fan_type \notin {FAN_TYPE_SUPPLY, FAN_TYPE_EXTRACT, FAN_TYPE_BOUNDED} THEN Raises
    ELSE Posts("setSpeed")

\* PranaApiClient.set_speed_is_on
set_speed_is_on(value, fan_type) ==
    IF fan_type \notin {FAN_TYPE_SUPPLY, FAN_TYPE_EXTRACT, FAN_TYPE_BOUNDED} THEN Raises
    ELSE Posts("setSpeedIsOn")

\* PranaApiClient.set_switch
set_switch(switch_type, value) ==
    IF switch_type \notin valid_switches THEN Raises
    ELSE Posts("setSwitch")

\* PranaApiClient.set_brightness
set_brightness(brightness) ==
    IF brightness \notin valid_brightness THEN Raises
    ELSE Posts("setBrightness")

\* command_func(*args) of _execute_command_with_retry, by command.
CommandFunc(c) ==
    CASE c.op = "set_speed" -> set_speed(c.speed, c.fan)
      [] c.op = "set_speed_is_on" -> set_speed_is_on(c.value, c.fan)
      [] c.op = "set_switch" -> set_switch(c.sw, c.value)
      [] c.op = "set_brightness" -> set_brightness(c.brightness)

\* The fake device applying an accepted write.
Apply(dev, c) ==
    CASE c.op = "set_speed" -> [dev EXCEPT !.speed[c.fan] = c.speed]
      [] c.op = "set_speed_is_on" -> [dev EXCEPT !.is_on[c.fan] = c.value]
      [] c.op = "set_switch" -> [dev EXCEPT !.sw[c.sw] = c.value]
      [] c.op = "set_brightness" -> [dev EXCEPT !.brightness = c.brightness]

\* ------------------------------------------------------------ switch.py, number.py
\* An entity method is modelled by what it decides from coordinator.data (d) when
\* it is called: whether it skips the update, and the coordinator commands it
\* issues otherwise, in order.
Plan(skip, cmds) == [skip |-> skip, cmds |-> cmds]

\* SWITCH_DESCRIPTIONS[..].value_fn
switch_value_fn(state, switch_type) == state.sw[switch_type]

\* SPEED_DESCRIPTIONS[..].value_fn: speed // SPEED_STEP if speed else 0
speed_value_fn(state, fan_type) ==
    IF state.speed[fan_type] # 0 THEN state.speed[fan_type] \div SPEED_STEP ELSE 0

\* PranaSwitch.async_turn_on
async_turn_on(d, switch_type) ==
    Plan(d # None /\ switch_value_fn(d[1], switch_type),
         <<SetSwitchCmd(switch_type, TRUE)>>)

\* An async_turn_off that skips when the switch is on.
async_turn_off_SkipsWhenOn(d, switch_type) ==
    Plan(d # None /\ switch_value_fn(d[1], switch_type),
         <<SetSwitchCmd(switch_type, FALSE)>>)

\* PranaSwitch.async_turn_off
async_turn_off(d, switch_type) ==
    Plan(d # None /\ ~switch_value_fn(d[1], switch_type),
         <<SetSwitchCmd(switch_type, FALSE)>>)

\* A native_value that falls back to the lowest level.
brightness_native_value_FallsToZero(raw_brightness) ==
    IF raw_brightness \in DOMAIN BRIGHTNESS_VALUES THEN BRIGHTNESS_VALUES[raw_brightness]
    ELSE 0

\* PranaBrightnessNumber.native_value for a snapshot whose brightness is raw.
brightness_native_value(raw_brightness) ==
    IF raw_brightness \in DOMAIN BRIGHTNESS_VALUES THEN BRIGHTNESS_VALUES[raw_brightness]
    ELSE 6

\* PranaBrightnessNumber.async_set_native_value
brightness_set_native_value(d, level) ==
    LET raw_brightness == BrightnessRaw(level) IN
    Plan(d # None /\ d[1].brightness = raw_brightness,
         <<SetBrightnessCmd(raw_brightness)>>)

\* An async_set_native_value that handles level 0 like the other levels: it
\* writes speed 0 first and then turns the fan off.
speed_set_native_value_WritesZero(d, fan_type, speed_level) ==
    LET current_speed_level == IF d # None THEN speed_value_fn(d[1], fan_type) ELSE 0
        current_is_on == IF d # None THEN is_fan_on(d[1], fan_type) ELSE FALSE
    IN IF speed_level = current_speed_level THEN Plan(TRUE, <<>>)
       ELSE IF speed_level = 0
            THEN Plan(FALSE,
                      <<SetSpeedCmd(0, fan_type)>>
                      \o (IF current_is_on THEN <<SetFanOnCmd(FALSE, fan_type)>> ELSE <<>>))
            ELSE Plan(FALSE,
                      <<SetSpeedCmd(speed_level * SPEED_STEP, fan_type)>>
                      \o (IF ~current_is_on THEN <<SetFanOnCmd(TRUE, fan_type)>> ELSE <<>>))

\* PranaSpeedNumber.async_set_native_value
speed_set_native_value(d, fan_type, speed_level) ==
    LET current_speed_level == IF d # None THEN speed_value_fn(d[1], fan_type) ELSE 0
        current_is_on == IF d # None THEN is_fan_on(d[1], fan_type) ELSE FALSE
    IN IF speed_level = current_speed_level THEN Plan(TRUE, <<>>)
       ELSE IF speed_level = 0
            THEN (IF current_is_on THEN Plan(FALSE, <<SetFanOnCmd(FALSE, fan_type)>>)
                  ELSE Plan(TRUE, <<>>))
            ELSE Plan(FALSE,
                      <<SetSpeedCmd(speed_level * SPEED_STEP, fan_type)>>
                      \o (IF ~current_is_on THEN <<SetFanOnCmd(TRUE, fan_type)>> ELSE <<>>))

\* ------------------------------------------------------------ state
VARIABLES
    device,               \* the fake device's state
    loaded,               \* async_setup_entry is past async_config_entry_first_refresh
    data,                 \* coordinator.data: None or Some(snapshot)
    last_update_success,  \* DataUpdateCoordinator.last_update_success
    last_exception,       \* DataUpdateCoordinator.last_exception
    lock_owner,           \* _command_lock: None (free) or Some(task holding it)
    lock_waiters,         \* _command_lock's waiters, first come first served
    pc,                   \* where each consumer task is in its command cycle
    req,                  \* the coordinator command a task is running
    queue,                \* the commands its entity method issues after this one
    attempt,              \* `attempt` of _execute_command_with_retry
    err,                  \* the PranaApiError caught by the cycle's handler, re-raised after the refresh
    resp,                 \* the answer to a task's async_refresh read, not yet stored
    poll_pc,              \* the timer's refresh: "idle" or "publish"
    poll_resp,            \* the answer to the timer's read, not yet stored
    trace,                \* the steps so far of the command cycle a task is in
    done,                 \* the call that ended in the latest step, if one did
    last_cmd,             \* the latest device call made by a command cycle
    last_dev,             \* who made the latest device call: "poll" or "command"
    api_in,               \* client-only specification: the write operation called
    api_out               \* client-only specification: what it did

vars == <<device, loaded, data, last_update_success, last_exception, lock_owner,
          lock_waiters, pc, req, queue, attempt, err, resp, poll_pc, poll_resp,
          trace, done, last_cmd, last_dev, api_in, api_out>>

coordVars == <<data, last_update_success, last_exception>>
lockVars == <<lock_owner, lock_waiters>>
apiVars == <<api_in, api_out>>

Returned == [kind |-> "returned", cls |-> "-", origin |-> "-", n |-> 0]
Skipped == [kind |-> "skipped", cls |-> "-", origin |-> "-", n |-> 0]
\* An exception: its class, the step that raised it, and for a write the number
\* of the attempt that raised it.
Raised(cls, origin, n) == [kind |-> "raised", cls |-> cls, origin |-> origin, n |-> n]

\* The record of a call that ended: whose it was, the command, what the caller
\* got, the steps of its cycle, and whether the entity method goes on to another
\* command.  For a skipped call the command is the one that was not issued.
Ended(t, c, outcome, tr, more) ==
    Some([task |-> t, cmd |-> c, outcome |-> outcome, trace |-> tr, more |-> more])

\* The steps of a cycle that are requests to the device.
WriteKinds == {"write_ok", "write_failed", "write_raised"}
DeviceCallKinds == {"get_state", "refresh"} \cup WriteKinds
\* How many steps of a cycle's trace are of the given kinds.
Count(tr, kinds) == Cardinality({i \in 1..Len(tr) : tr[i] \in kinds})
\* No device call is in the trace yet.
NoCallYet(tr) == Count(tr, DeviceCallKinds) = 0

Init ==
    /\ device = DeviceInit
    /\ loaded = FALSE
    /\ data = None
    /\ last_update_success = TRUE
    /\ last_exception = None
    /\ lock_owner = None
    /\ lock_waiters = <<>>
    /\ pc = [t \in Tasks |-> "idle"]
    /\ req = [t \in Tasks |-> NoCmd]
    /\ queue = [t \in Tasks |-> <<>>]
    /\ attempt = [t \in Tasks |-> 0]
    /\ err = [t \in Tasks |-> None]
    /\ resp = [t \in Tasks |-> None]
    /\ poll_pc = "idle"
    /\ poll_resp = None
    /\ trace = [t \in Tasks |-> <<>>]
    /\ done = None
    /\ last_cmd = None
    /\ last_dev = "none"
    /\ api_in = NoCmd
    /\ api_out = None

\* ------------------------------------------------------------ api.py: get_state
\* PranaApiClient.get_state against the fake device: what the call gives back.
get_state(o, dev) ==
    LET cls == _request("GET", o) IN
    [cls |-> cls, state |-> IF cls = "ok" THEN Some(from_api_response(dev)) ELSE None]

\* ------------------------------------------------------------ coordinator.py
\* An _async_update_data that gives up on a connection error without raising.
_async_update_data_Swallows(cls) ==
    IF cls = "PranaApiError" THEN "UpdateFailed"
    ELSE IF cls = "PranaConnectionError" THEN "ok"
    ELSE cls

\* PranaCoordinator._async_update_data: what it returns ("ok") or raises, given
\* what get_state did.  Any other exception passes through unchanged.
_async_update_data(cls) == IF cls \in ApiErrors THEN "UpdateFailed" ELSE cls

\* A refresh that drops the snapshot when it fails.
AsyncRefreshDone_DropsOnFailure(r) ==
    LET out == _async_update_data(r.cls) IN
    /\ data' = IF out = "ok" THEN r.state ELSE None
    /\ last_update_success' = (out = "ok")
    /\ last_exception' = IF out = "ok" THEN last_exception ELSE Some(out)

\* A refresh that, once an update has failed, never reports success again.
AsyncRefreshDone_StaysFailed(r) ==
    LET out == _async_update_data(r.cls) IN
    /\ data' = IF out = "ok" THEN r.state ELSE data
    /\ last_update_success' = (last_update_success /\ out = "ok")
    /\ last_exception' = IF out = "ok" THEN last_exception ELSE Some(out)

\* DataUpdateCoordinator.async_refresh finishing with answer r: it stores the new
\* snapshot, or records the failure and keeps the old one; it raises nothing.
AsyncRefreshDone(r) ==
    LET out == _async_update_data(r.cls) IN
    /\ data' = IF out = "ok" THEN r.state ELSE data
    /\ last_update_success' = (out = "ok")
    /\ last_exception' = IF out = "ok" THEN last_exception ELSE Some(out)

\* A force refresh that waits the settle delay before it reads.
StartPc_SettlesFirst(c) == IF c.op = "force_refresh" THEN "settle" ELSE "get_state"

\* Where a cycle starts once it holds the lock: async_force_refresh goes straight
\* to async_refresh, the async_set_* methods read the state first.
StartPc(c) == IF c.op = "force_refresh" THEN "refresh" ELSE "get_state"

\* A lock that never makes a task wait.
AcquiresAtOnce_NeverWaits(t) == TRUE

\* A lock that makes a task wait only behind tasks already waiting.
AcquiresAtOnce_WhenNobodyWaits(t) == lock_waiters = <<>>

\* asyncio.Lock.acquire by task t: TRUE when it takes the lock at once, FALSE
\* when it has to wait in line.
AcquiresAtOnce(t) == lock_owner = None

\* `async with self._command_lock` entered by task t for the commands cmds.
EnterLock(t, cmds) ==
    /\ req' = [req EXCEPT ![t] = Head(cmds)]
    /\ queue' = [queue EXCEPT ![t] = Tail(cmds)]
    /\ IF AcquiresAtOnce(t)
       THEN /\ lock_owner' = Some(t)
            /\ lock_waiters' = lock_waiters
            /\ pc' = [pc EXCEPT ![t] = StartPc(Head(cmds))]
       ELSE /\ lock_owner' = lock_owner
            /\ lock_waiters' = Append(lock_waiters, t)
            /\ pc' = [pc EXCEPT ![t] = "wait_lock"]

\* An entity method, or a direct call of a coordinator method, by task t: it
\* returns at once when the entity method skips, and issues the plan's commands
\* otherwise.
Call(t, plan) ==
    /\ loaded
    /\ pc[t] = "idle"
    /\ IF plan.skip
       THEN /\ done' = Ended(t, IF plan.cmds = <<>> THEN NoCmd ELSE Head(plan.cmds),
                             Skipped, <<>>, FALSE)
            /\ UNCHANGED <<lockVars, pc, req, queue>>
       ELSE /\ EnterLock(t, plan.cmds)
            /\ done' = None
    /\ UNCHANGED <<device, loaded, coordVars, attempt, err, resp, poll_pc, poll_resp,
                   trace, last_cmd, last_dev>>

Issue(t, plan) == Call(t, plan) /\ UNCHANGED apiVars

\* A release that wakes nobody.
Woken_Nobody(w) == None

\* asyncio.Lock.release with the tasks w waiting: the task that gets the lock.
Woken(w) == IF w = <<>> THEN None ELSE Some(Head(w))

\* An exit that releases the lock only when no exception passes through it.
LeaveLock_HoldsOnError(t, outcome, tr) ==
    LET cont == outcome.kind = "returned" /\ queue[t] # <<>>
        released == outcome.kind # "raised"
        w == IF cont THEN Append(lock_waiters, t) ELSE lock_waiters
        woken == IF released THEN Woken(w) ELSE lock_owner
        nreq == [req EXCEPT ![t] = IF cont THEN Head(queue[t]) ELSE NoCmd]
    IN /\ req' = nreq
       /\ queue' = [queue EXCEPT ![t] = IF cont THEN Tail(queue[t]) ELSE <<>>]
       /\ lock_owner' = woken
       /\ lock_waiters' = IF w = <<>> \/ ~released THEN w ELSE Tail(w)
       /\ pc' = [p \in Tasks |->
                   IF released /\ woken = Some(p) THEN StartPc(nreq[p])
                   ELSE IF p = t THEN (IF cont THEN "wait_lock" ELSE "idle")
                   ELSE pc[p]]
       /\ trace' = [p \in Tasks |->
                   IF released /\ lock_waiters # <<>> /\ p = Head(lock_waiters)
                   THEN <<"lock_wait">>
                   ELSE IF p = t THEN <<>>
                   ELSE trace[p]]
       /\ done' = Ended(t, req[t], outcome, tr, cont)
       /\ attempt' = [attempt EXCEPT ![t] = 0]
       /\ err' = [err EXCEPT ![t] = None]
       /\ resp' = [resp EXCEPT ![t] = None]

\* Leaving `async with self._command_lock` with `outcome` after the steps tr:
\* asyncio.Lock.release wakes the first waiter.  When the entity method goes on
\* to its next command (the cycle returned and queue is not empty) the task
\* enters the lock again at once, behind the tasks already waiting.
LeaveLock(t, outcome, tr) ==
    LET cont == outcome.kind = "returned" /\ queue[t] # <<>>
        w == IF cont THEN Append(lock_waiters, t) ELSE lock_waiters
        nreq == [req EXCEPT ![t] = IF cont THEN Head(queue[t]) ELSE NoCmd]
    IN /\ req' = nreq
       /\ queue' = [queue EXCEPT ![t] = IF cont THEN Tail(queue[t]) ELSE <<>>]
       /\ lock_owner' = Woken(w)
       /\ lock_waiters' = IF w = <<>> THEN <<>> ELSE Tail(w)
       /\ pc' = [p \in Tasks |->
                   IF Woken(w) = Some(p) THEN StartPc(nreq[p])
                   ELSE IF p = t THEN (IF cont THEN "wait_lock" ELSE "idle")
                   ELSE pc[p]]
       /\ trace' = [p \in Tasks |->
                   IF lock_waiters # <<>> /\ p = Head(lock_waiters) THEN <<"lock_wait">>
                   ELSE IF p = t THEN <<>>
                   ELSE trace[p]]
       /\ done' = Ended(t, req[t], outcome, tr, cont)
       /\ attempt' = [attempt EXCEPT ![t] = 0]
       /\ err' = [err EXCEPT ![t] = None]
       /\ resp' = [resp EXCEPT ![t] = None]

\* The cycle of task t goes on under the lock: to step npc, with `attempt` and
\* the caught error as given, after the steps tr.
StayInCycle(t, npc, natt, nerr, tr) ==
    /\ pc' = [pc EXCEPT ![t] = npc]
    /\ attempt' = [attempt EXCEPT ![t] = natt]
    /\ err' = [err EXCEPT ![t] = nerr]
    /\ trace' = [trace EXCEPT ![t] = tr]
    /\ done' = None
    /\ UNCHANGED <<lockVars, req, queue, resp>>

\* A retry loop that catches every exception.
Retryable_Any(cls) == TRUE
\* `except PranaApiError` in _execute_command_with_retry: the errors it retries.
Retryable(cls) == cls \in ApiErrors
\* A loop that makes one pass too many.
MoreAttempts_OneMore(att) == att < MAX_RETRIES
\* `for attempt in range(MAX_RETRIES)`: another pass follows pass number att.
MoreAttempts(att) == att + 1 < MAX_RETRIES
\* A loop that sleeps after every failed pass, the last one too.
SleepsAfter_AfterLast(att) == att < MAX_RETRIES
\* `if attempt < MAX_RETRIES - 1: await asyncio.sleep(RETRY_DELAY)`
SleepsAfter(att) == att < MAX_RETRIES - 1
\* `except PranaApiError as err` of the async_set_* methods: the errors for which
\* the cycle refreshes before it raises.
HandlerCatches(cls) == cls \in ApiErrors

\* An exception e leaves the try block of an async_set_* method: the handler
\* takes it to `await self.async_refresh()` and `raise`, or it leaves the lock.
Propagate(t, e, tr) ==
    IF HandlerCatches(e.cls)
    THEN StayInCycle(t, "refresh", attempt[t], Some(e), tr)
    ELSE LeaveLock(t, e, tr)

\* The end of a failed pass of the retry loop: the next pass, or after the last
\* one `raise last_error`.
LoopNext(t, e, tr) ==
    IF MoreAttempts(attempt[t])
    THEN StayInCycle(t, "write", attempt[t] + 1, Some(e), tr)
    ELSE Propagate(t, e, tr)

\* The exception cls raised by pass number att of the retry loop ends the cycle
\* there and then.
Leaves(cls, att) ==
    /\ cls # "ok"
    /\ ~HandlerCatches(cls)
    /\ ~Retryable(cls) \/ (~SleepsAfter(att) /\ ~MoreAttempts(att))

\* A device call by the command cycle of task t, as the fake device records it:
\* whether it is the cycle's first, and how the cycle goes on from it: "open",
\* "refresh" (this is the cycle's refresh read) or "aborted" (the call raised
\* an exception that ends the cycle).
LogCall(t, first, end) ==
    /\ last_cmd' = Some([task |-> t, first |-> first, end |-> end])
    /\ last_dev' = "command"

\* async_set_*: `current_state = await self.api.get_state()` under the lock.
InitialRead(t) ==
    /\ pc[t] = "get_state"
    /\ \E o \in Outcomes :
         LET r == get_state(o, device)
             tr == Append(trace[t], "get_state")
         IN
         /\ LogCall(t, TRUE, IF r.cls # "ok" /\ ~HandlerCatches(r.cls)
                             THEN "aborted" ELSE "open")
         /\ IF r.cls = "ok"
            THEN StayInCycle(t, "write", 0, None, tr)
            ELSE Propagate(t, Raised(r.cls, "get_state", 0), tr)
    /\ UNCHANGED <<device, loaded, coordVars, poll_pc, poll_resp, apiVars>>

\* One pass of the loop of _execute_command_with_retry: command_func raises
\* ValueError before any request, or sends its POST and the device answers.
WriteAttempt(t) ==
    /\ pc[t] = "write"
    /\ \E o \in Outcomes :
         LET f == CommandFunc(req[t])
             sent == f.requests # <<>>
             cls == IF f.raises THEN "ValueError" ELSE _request("POST", o)
             step == IF ~sent THEN "rejected"
                     ELSE IF cls = "ok" THEN "write_ok"
                     ELSE IF Retryable(cls) THEN "write_failed"
                     ELSE "write_raised"
             tr == Append(trace[t], step)
             e == Raised(cls, "write", attempt[t] + 1)
             end == IF Leaves(cls, attempt[t]) THEN "aborted" ELSE "open"
         IN
         /\ device' = IF sent /\ Handled(o) THEN Apply(device, req[t]) ELSE device
         /\ IF sent
            THEN LogCall(t, FALSE, end)
            ELSE /\ last_cmd' = Some([last_cmd[1] EXCEPT !.end = end])
                 /\ last_dev' = last_dev
         /\ IF cls = "ok"
            THEN StayInCycle(t, "settle", attempt[t], None, tr)
            ELSE IF Retryable(cls)
            THEN IF SleepsAfter(attempt[t])
                 THEN StayInCycle(t, "retry_delay", attempt[t], Some(e), tr)
                 ELSE LoopNext(t, e, tr)
            ELSE Propagate(t, e, tr)
    /\ UNCHANGED <<loaded, coordVars, poll_pc, poll_resp, apiVars>>

\* await asyncio.sleep(RETRY_DELAY), then the next pass of the loop.
RetryDelay(t) ==
    /\ pc[t] = "retry_delay"
    /\ LoopNext(t, err[t][1], Append(trace[t], "retry_delay"))
    /\ UNCHANGED <<device, loaded, coordVars, poll_pc, poll_resp, last_cmd, last_dev,
                   apiVars>>

\* _refresh_after_command: await asyncio.sleep(POST_COMMAND_DELAY).
SettleDelay(t) ==
    /\ pc[t] = "settle"
    /\ StayInCycle(t, "refresh", attempt[t], err[t], Append(trace[t], "settle_delay"))
    /\ UNCHANGED <<device, loaded, coordVars, poll_pc, poll_resp, last_cmd, last_dev,
                   apiVars>>

\* self.async_refresh() under the lock: the device answers the read.
RefreshRead(t) ==
    /\ pc[t] = "refresh"
    /\ \E o \in Outcomes : resp' = [resp EXCEPT ![t] = Some(get_state(o, device))]
    /\ pc' = [pc EXCEPT ![t] = "publish"]
    /\ trace' = [trace EXCEPT ![t] = Append(@, "refresh")]
    /\ LogCall(t, NoCallYet(trace[t]), "refresh")
    /\ done' = None
    /\ UNCHANGED <<device, loaded, coordVars, lockVars, req, queue, attempt, err,
                   poll_pc, poll_resp, apiVars>>

\* A cycle whose failed refresh raises its own error.
CycleOutcome_RefreshError(caught, refreshed) ==
    IF refreshed.cls # "ok" THEN Raised(refreshed.cls, "refresh", 0)
    ELSE IF caught = None THEN Returned
    ELSE caught[1]

\* What the caller of a cycle gets once its refresh is over: the method returns,
\* or its handler's `raise` re-raises the error it caught.
CycleOutcome(caught, refreshed) == IF caught = None THEN Returned ELSE caught[1]

\* async_refresh stores the answer; the cycle then returns or raises, and the
\* lock is released.
RefreshPublish(t) ==
    /\ pc[t] = "publish"
    /\ AsyncRefreshDone(resp[t][1])
    /\ LeaveLock(t, CycleOutcome(err[t], resp[t][1]), trace[t])
    /\ UNCHANGED <<device, loaded, poll_pc, poll_resp, last_cmd, last_dev, apiVars>>

\* ------------------------------------------------------------ the update timer
\* The scheduled refresh (update_interval = SCAN_INTERVAL) and, before the
\* platforms are set up, async_config_entry_first_refresh: the device answers
\* _async_update_data's read.  Nothing here takes _command_lock.
PollRead ==
    /\ poll_pc = "idle"
    /\ \E o \in Outcomes : poll_resp' = Some(get_state(o, device))
    /\ poll_pc' = "publish"
    /\ last_dev' = "poll"
    /\ done' = None
    /\ UNCHANGED <<device, loaded, coordVars, lockVars, pc, req, queue, attempt, err, resp,
                   trace, last_cmd, apiVars>>

\* The timer's refresh stores its answer.  A failed first refresh raises
\* ConfigEntryNotReady out of async_setup_entry: the coordinator is dropped and
\* set-up starts again with a new one.
PollPublish ==
    /\ poll_pc = "publish"
    /\ poll_pc' = "idle"
    /\ poll_resp' = None
    /\ IF loaded \/ poll_resp[1].cls = "ok"
       THEN /\ AsyncRefreshDone(poll_resp[1])
            /\ loaded' = TRUE
       ELSE /\ UNCHANGED coordVars
            /\ loaded' = FALSE
    /\ done' = None
    /\ UNCHANGED <<device, lockVars, pc, req, queue, attempt, err, resp,
                   trace, last_cmd, last_dev, apiVars>>

\* ------------------------------------------------------------ specifications
\* The entities and arguments the consumers use.
SwitchArgs == {"boost"}
BrightnessLevelArgs == {0, 6}
\* Direct calls of the coordinator's methods with arguments the client rejects.
BadCalls ==
    {SetSpeedCmd(25, FAN_TYPE_SUPPLY), SetFanOnCmd(TRUE, "attic"),
     SetSwitchCmd("turbo", TRUE), SetBrightnessCmd(7)}

SwitchTurnOn(t) == \E s \in SwitchArgs : Issue(t, async_turn_on(data, s))
SwitchTurnOff(t) == \E s \in SwitchArgs : Issue(t, async_turn_off(data, s))
BrightnessSet(t) == \E l \in BrightnessLevelArgs : Issue(t, brightness_set_native_value(data, l))
BadCall(t, calls) == \E c \in calls : Issue(t, Plan(FALSE, <<c>>))
ForceRefresh(t) == Issue(t, Plan(FALSE, <<ForceRefreshCmd>>))

\* Spec: the whole integration with one consumer task beside the update timer.
Consumer == CHOOSE t \in Tasks : \A u \in Tasks : t <= u

Next ==
    \/ SwitchTurnOn(Consumer)
    \/ SwitchTurnOff(Consumer)
    \/ BrightnessSet(Consumer)
    \/ BadCall(Consumer, BadCalls)
    \/ ForceRefresh(Consumer)
    \/ InitialRead(Consumer)
    \/ WriteAttempt(Consumer)
    \/ RetryDelay(Consumer)
    \/ SettleDelay(Consumer)
    \/ RefreshRead(Consumer)
    \/ RefreshPublish(Consumer)
    \/ PollRead
    \/ PollPublish

Spec == Init /\ [][Next]_vars

\* SpecRace: every task is a consumer and they call concurrently, from the state
\* a successful first refresh leaves; the update timer is left out.
InitRace ==
    /\ device = DeviceInit
    /\ loaded = TRUE
    /\ data = Some(from_api_response(DeviceInit))
    /\ last_update_success = TRUE
    /\ last_exception = None
    /\ lock_owner = None
    /\ lock_waiters = <<>>
    /\ pc = [t \in Tasks |-> "idle"]
    /\ req = [t \in Tasks |-> NoCmd]
    /\ queue = [t \in Tasks |-> <<>>]
    /\ attempt = [t \in Tasks |-> 0]
    /\ err = [t \in Tasks |-> None]
    /\ resp = [t \in Tasks |-> None]
    /\ poll_pc = "idle"
    /\ poll_resp = None
    /\ trace = [t \in Tasks |-> <<>>]
    /\ done = None
    /\ last_cmd = None
    /\ last_dev = "none"
    /\ api_in = NoCmd
    /\ api_out = None

NextRace ==
    \/ \E t \in Tasks : SwitchTurnOn(t)
    \/ \E t \in Tasks : SwitchTurnOff(t)
    \/ \E t \in Tasks : BadCall(t, {SetSwitchCmd("turbo", TRUE)})
    \/ \E t \in Tasks : ForceRefresh(t)
    \/ \E t \in Tasks : InitialRead(t)
    \/ \E t \in Tasks : WriteAttempt(t)
    \/ \E t \in Tasks : RetryDelay(t)
    \/ \E t \in Tasks : SettleDelay(t)
    \/ \E t \in Tasks : RefreshRead(t)
    \/ \E t \in Tasks : RefreshPublish(t)

SpecRace == InitRace /\ [][NextRace]_vars

\* SpecRaceFair: SpecRace where every device call and every delay of a cycle
\* under way returns in the end.
CycleFairness(t) ==
    /\ WF_vars(InitialRead(t))
    /\ WF_vars(WriteAttempt(t))
    /\ WF_vars(RetryDelay(t))
    /\ WF_vars(SettleDelay(t))
    /\ WF_vars(RefreshRead(t))
    /\ WF_vars(RefreshPublish(t))

SpecRaceFair == SpecRace /\ \A t \in Tasks : CycleFairness(t)

\* SpecSpeed: the speed number entity of one fan, used by one consumer task
\* and nobody else, from the state a successful first refresh leaves.
SpeedFanArgs == {FAN_TYPE_SUPPLY}
SpeedLevelArgs == 0..6

\* The speed request under way, kept in api_in: the entity's fan, the level
\* asked for, and whether coordinator.data was the device's state when
\* async_set_native_value read it.
SpeedRequest(fan_type, speed_level, synced) ==
    [fn |-> "speed_set", fan_type |-> fan_type, speed_level |-> speed_level, synced |-> synced]

\* PranaSpeedNumber.async_set_native_value(level) for a level among levels.
SpeedSet(t, levels) ==
    \E f \in SpeedFanArgs, l \in levels :
      /\ Call(t, speed_set_native_value(data, f, l))
      /\ api_in' = SpeedRequest(f, l, data = Some(from_api_response(device)))
      /\ api_out' = api_out

NextSpeed ==
    \/ SpeedSet(Consumer, SpeedLevelArgs)
    \/ InitialRead(Consumer)
    \/ WriteAttempt(Consumer)
    \/ RetryDelay(Consumer)
    \/ SettleDelay(Consumer)
    \/ RefreshRead(Consumer)
    \/ RefreshPublish(Consumer)

SpecSpeed == InitRace /\ [][NextSpeed]_vars

\* SpecSpeedRace: every task uses the speed entity, and they call concurrently.
SpeedRaceLevelArgs == {0, 3}

NextSpeedRace ==
    \/ \E t \in Tasks : SpeedSet(t, SpeedRaceLevelArgs)
    \/ \E t \in Tasks : InitialRead(t)
    \/ \E t \in Tasks : WriteAttempt(t)
    \/ \E t \in Tasks : RetryDelay(t)
    \/ \E t \in Tasks : SettleDelay(t)
    \/ \E t \in Tasks : RefreshRead(t)
    \/ \E t \in Tasks : RefreshPublish(t)

SpecSpeedRace == InitRace /\ [][NextSpeedRace]_vars

\* SpecApi: the client's write operations alone, called with arguments from well
\* beyond the accepted ones.
MaxSpeedArg == 80
MaxBrightnessArg == 40
FanTypeArgs == FanTypes \cup {"attic", ""}
SwitchTypeArgs == valid_switches \cup {"turbo", "brightness"}
ApiCalls ==
    {SetSpeedCmd(s, f) : s \in (0 - MaxSpeedArg)..MaxSpeedArg, f \in FanTypeArgs}
    \cup {SetFanOnCmd(v, f) : v \in BOOLEAN, f \in FanTypeArgs}
    \cup {SetSwitchCmd(s, v) : s \in SwitchTypeArgs, v \in BOOLEAN}
    \cup {SetBrightnessCmd(b) : b \in -1..MaxBrightnessArg}

InitApi ==
    /\ device = DeviceInit
    /\ loaded = FALSE
    /\ data = None
    /\ last_update_success = TRUE
    /\ last_exception = None
    /\ lock_owner = None
    /\ lock_waiters = <<>>
    /\ pc = [t \in Tasks |-> "idle"]
    /\ req = [t \in Tasks |-> NoCmd]
    /\ queue = [t \in Tasks |-> <<>>]
    /\ attempt = [t \in Tasks |-> 0]
    /\ err = [t \in Tasks |-> None]
    /\ resp = [t \in Tasks |-> None]
    /\ poll_pc = "idle"
    /\ poll_resp = None
    /\ trace = [t \in Tasks |-> <<>>]
    /\ done = None
    /\ last_cmd = None
    /\ last_dev = "none"
    /\ api_in \in ApiCalls
    /\ api_out = None

\* A test calls the write operation api_in on the client.
ApiCall ==
    /\ api_out = None
    /\ api_out' = Some(CommandFunc(api_in))
    /\ api_in' = api_in
    /\ UNCHANGED <<device, loaded, coordVars, lockVars, pc, req, queue, attempt, err, resp,
                   poll_pc, poll_resp, trace, done, last_cmd, last_dev>>

\* The test goes on to its next case.
ApiNextCase ==
    /\ api_out # None
    /\ api_in' \in ApiCalls
    /\ api_out' = None
    /\ UNCHANGED <<device, loaded, coordVars, lockVars, pc, req, queue, attempt, err, resp,
                   poll_pc, poll_resp, trace, done, last_cmd, last_dev>>

NextApi == ApiCall \/ ApiNextCase

SpecApi == InitApi /\ [][NextApi]_vars

\* SpecFn: the functions of the state model, the client's transport and the
\* entity methods' decisions, each applied once to an input drawn at the start.
MaxLevelArg == 8
MaxMaxSpeedArg == 61
FnCall(fn, x, y, p, q) == [fn |-> fn, x |-> x, y |-> y, p |-> p, q |-> q]
FnResult(n, b, c) == [n |-> n, b |-> b, c |-> c]
EntityFns == {"async_turn_on", "async_turn_off", "brightness_set", "speed_set"}
FnCalls ==
    {FnCall("raw_to_level", raw, 0, "-", "-") : raw \in -1..MaxBrightnessArg}
    \cup {FnCall("level_round_trip", level, 0, "-", "-") : level \in 0..MaxLevelArg}
    \cup {FnCall("level_to_raw", level, 0, "-", "-") : level \in 0..MaxLevelArg}
    \cup {FnCall("get_speed_percentage", sp * SPEED_STEP, m, f, "-") :
            sp \in 0..6, m \in 0..MaxMaxSpeedArg, f \in FanTypes}
    \cup {FnCall("from_api_response", b, 0, p, "-") :
            b \in valid_brightness, p \in {"present", "absent"}}
    \cup {FnCall(fn, v, 0, sw, q) :
            fn \in {"async_turn_on", "async_turn_off"}, v \in {0, 1}, sw \in valid_switches,
            q \in {"present", "absent"}}
    \cup {FnCall("brightness_set", level, 0, "-", q) :
            level \in 0..6, q \in {"present", "absent"}}
    \cup {FnCall("speed_set", level, on, f, q) :
            level \in 0..6, on \in {0, 1}, f \in FanTypes, q \in {"present", "absent"}}
    \cup {FnCall("_request", 0, 0, method, o) : method \in {"GET", "POST"}, o \in Outcomes}

\* The getState payload of a call of from_api_response: with brightness
\* c.x, or without the field.
PayloadOf(c) ==
    IF c.p = "present" THEN [DeviceInit EXCEPT !.brightness = c.x]
    ELSE [k \in DOMAIN DeviceInit \ {"brightness"} |-> DeviceInit[k]]

\* coordinator.data of a call of an entity method: absent, or a snapshot in
\* which the switch or fan asked about is on or off as c says, the fan when on
\* at speed 30.
DataOf(c) ==
    IF c.q = "absent" THEN None
    ELSE Some([from_api_response(DeviceInit) EXCEPT
                 !.sw = [s \in valid_switches |-> IF s = c.p THEN c.x = 1 ELSE @[s]],
                 !.is_on = [f \in FanTypes |-> IF f = c.p THEN c.y = 1 ELSE @[f]],
                 !.speed = [f \in FanTypes |-> IF f = c.p /\ c.y = 1 THEN 30 ELSE @[f]]])

FnApply(c) ==
    CASE c.fn = "raw_to_level" -> FnResult(brightness_native_value(c.x), FALSE, "-")
      [] c.fn = "level_to_raw" -> FnResult(BrightnessRaw(c.x), FALSE, "-")
      [] c.fn = "level_round_trip" ->
           FnResult(brightness_native_value(BrightnessRaw(c.x)), FALSE, "-")
      [] c.fn = "get_speed_percentage" ->
           FnResult(get_speed_percentage(
                      [speed |-> [f \in FanTypes |-> IF f = c.p THEN c.x ELSE 0],
                       max_speed |-> [f \in FanTypes |-> IF f = c.p THEN c.y ELSE 60]],
                      c.p), FALSE, "-")
      [] c.fn = "from_api_response" ->
           FnResult(from_api_response(PayloadOf(c)).brightness, FALSE, "-")
      [] c.fn = "async_turn_on" -> FnResult(0, async_turn_on(DataOf(c), c.p).skip, "-")
      [] c.fn = "async_turn_off" -> FnResult(0, async_turn_off(DataOf(c), c.p).skip, "-")
      [] c.fn = "brightness_set" ->
           FnResult(0, brightness_set_native_value(DataOf(c), c.x).skip, "-")
      [] c.fn = "speed_set" ->
           FnResult(0, speed_set_native_value(DataOf(c), c.p, c.x).skip, "-")
      [] c.fn = "_request" -> FnResult(0, FALSE, _request(c.p, c.q))

InitFn ==
    /\ device = DeviceInit
    /\ loaded = FALSE
    /\ data = None
    /\ last_update_success = TRUE
    /\ last_exception = None
    /\ lock_owner = None
    /\ lock_waiters = <<>>
    /\ pc = [t \in Tasks |-> "idle"]
    /\ req = [t \in Tasks |-> NoCmd]
    /\ queue = [t \in Tasks |-> <<>>]
    /\ attempt = [t \in Tasks |-> 0]
    /\ err = [t \in Tasks |-> None]
    /\ resp = [t \in Tasks |-> None]
    /\ poll_pc = "idle"
    /\ poll_resp = None
    /\ trace = [t \in Tasks |-> <<>>]
    /\ done = None
    /\ last_cmd = None
    /\ last_dev = "none"
    /\ api_in \in FnCalls
    /\ api_out = None

\* The function api_in names is applied to its input.
FnEval ==
    /\ api_out = None
    /\ api_out' = Some(FnApply(api_in))
    /\ api_in' = api_in
    /\ UNCHANGED <<device, loaded, coordVars, lockVars, pc, req, queue, attempt, err, resp,
                   poll_pc, poll_resp, trace, done, last_cmd, last_dev>>

NextFn == FnEval

SpecFn == InitFn /\ [][NextFn]_vars

\* ------------------------------------------------------------ properties
\* Task t makes the first device call of a command cycle in this step.
FirstCall(t) == InitialRead(t) \/ (RefreshRead(t) /\ NoCallYet(trace[t]))
\* Task t makes a later device call of its command cycle in this step.
LaterCall(t) ==
    \/ WriteAttempt(t) /\ CommandFunc(req[t]).requests # <<>>
    \/ RefreshRead(t) /\ ~NoCallYet(trace[t])

C2_PollOutsideCycles ==
    [][\A t \in Tasks : LaterCall(t) => last_dev # "poll"]_vars

\* C3: when a poll of the loaded coordinator fails with PranaConnectionError or
\* PranaApiError, the snapshot stays the one before it, last_update_success
\* turns false and last_exception is set, and no consumer call ends or moves.
C3_StaleOnPollFailure ==
    [][(PollPublish /\ loaded /\ poll_resp[1].cls \in ApiErrors) =>
         /\ data # None
         /\ data' = data
         /\ last_update_success' = FALSE
         /\ last_exception' # None
         /\ done' = None
         /\ pc' = pc]_vars

\* Before any command, a poll has failed after one that succeeded: the snapshot
\* is still there and the failure is recorded.
C3_Witness ==
    /\ loaded
    /\ last_cmd = None
    /\ last_dev = "poll"
    /\ poll_pc = "idle"
    /\ data = Some(from_api_response(device))
    /\ ~last_update_success
    /\ last_exception = Some("UpdateFailed")

\* C4: a command cycle sends at most MAX_RETRIES writes.  A write that succeeds
\* is the last one, comes after k failed writes (k < MAX_RETRIES) each followed
\* by the retry delay, and makes the command return; the command raises a
\* write's PranaApiError only after MAX_RETRIES failed writes, and returns only
\* after a write that succeeded.
C4_BoundedRetries ==
    /\ \A t \in Tasks : Count(trace[t], WriteKinds) <= MAX_RETRIES
    /\ done # None =>
         LET d == done[1]
             nfail == Count(d.trace, {"write_failed"})
             nok == Count(d.trace, {"write_ok"})
             nall == Count(d.trace, WriteKinds)
         IN /\ nall <= MAX_RETRIES
            /\ nok <= 1
            /\ nok = 1 =>
                 /\ d.outcome = Returned
                 /\ nall = nfail + 1
                 /\ Count(d.trace, {"retry_delay"}) = nfail
                 /\ \A i \in 1..Len(d.trace) :
                      d.trace[i] = "write_ok" =>
                        \A j \in (i + 1)..Len(d.trace) : d.trace[j] \notin WriteKinds
            /\ (d.outcome.kind = "raised" /\ d.outcome.origin = "write"
                /\ d.outcome.cls \in ApiErrors) => nfail = MAX_RETRIES
            /\ (d.outcome = Returned /\ d.cmd.op # "force_refresh") => nok = 1

\* A command returned after two failed writes and a third that succeeded.
C4_Witness ==
    /\ done # None
    /\ done[1].outcome = Returned
    /\ done[1].trace = <<"get_state", "write_failed", "retry_delay", "write_failed",
                         "retry_delay", "write_ok", "settle_delay", "refresh">>

\* C5: a write step whose command_func raises ValueError ends the cycle at once:
\* it is the first attempt, nothing is sent, no retry delay follows, and the
\* caller gets the ValueError.
C5_InvalidArgumentNotRetried ==
    /\ \A t \in Tasks : Count(trace[t], {"rejected"}) = 0
    /\ (done # None /\ Count(done[1].trace, {"rejected"}) > 0) =>
         LET d == done[1] IN
         /\ d.outcome = Raised("ValueError", "write", 1)
         /\ d.trace[Len(d.trace)] = "rejected"
         /\ Count(d.trace, {"rejected"}) = 1
         /\ Count(d.trace, WriteKinds \cup {"retry_delay", "refresh"}) = 0

\* A command with a rejected argument ended with ValueError after its one pass.
C5_Witness ==
    /\ done # None
    /\ done[1].outcome.cls = "ValueError"
    /\ done[1].trace = <<"get_state", "rejected">>

\* C6: after MAX_RETRIES failed writes the cycle reads the state once more, and
\* only then the caller gets an error: the one of the last write attempt,
\* whatever the refresh did.
C6_RefreshBeforeRaise ==
    (done # None /\ Count(done[1].trace, {"write_failed"}) = MAX_RETRIES) =>
      LET d == done[1] IN
      /\ d.outcome.kind = "raised"
      /\ d.outcome.cls \in ApiErrors
      /\ d.outcome.origin = "write"
      /\ d.outcome.n = MAX_RETRIES
      /\ d.trace[Len(d.trace)] = "refresh"
      /\ Count(d.trace, {"refresh"}) = 1

\* A command raised its write error after a refresh that failed with an error
\* of the other class.
C6_Witness ==
    /\ done # None
    /\ Count(done[1].trace, {"write_failed"}) = MAX_RETRIES
    /\ done[1].outcome.cls = "PranaConnectionError"
    /\ ~last_update_success
    /\ done[1].trace[Len(done[1].trace)] = "refresh"

\* C7: in every cycle that sent a write, the settle delay comes right before
\* the refresh read, on the path of a successful write and on the path of the
\* final failure alike.
C7_SettleBeforeRefresh ==
    (done # None /\ Count(done[1].trace, WriteKinds) > 0
                 /\ Count(done[1].trace, {"refresh"}) > 0) =>
      \E i \in 1..(Len(done[1].trace) - 1) :
        /\ done[1].trace[i] = "settle_delay"
        /\ done[1].trace[i + 1] = "refresh"

\* The arguments the client's write operations accept.
ValidArgs(c) ==
    CASE c.op = "set_speed" ->
           c.speed \in {0, 10, 20, 30, 40, 50, 60} /\ c.fan \in {"supply", "extract", "bounded"}
      [] c.op = "set_speed_is_on" -> c.fan \in {"supply", "extract", "bounded"}
      [] c.op = "set_switch" ->
           c.sw \in {"bound", "heater", "auto", "auto_plus", "winter", "night", "boost"}
      [] c.op = "set_brightness" -> c.brightness \in {0, 1, 2, 4, 8, 16, 32}
      [] OTHER -> TRUE

\* The endpoint of each write operation.
Endpoint(c) ==
    CASE c.op = "set_speed" -> "setSpeed"
      [] c.op = "set_speed_is_on" -> "setSpeedIsOn"
      [] c.op = "set_switch" -> "setSwitch"
      [] c.op = "set_brightness" -> "setBrightness"

\* C8: a write operation of the client called with an argument outside the
\* accepted ones raises ValueError and sends no request; called with accepted
\* arguments it sends exactly one request, the POST to its endpoint.
C8_ClientValidation ==
    api_out # None =>
      IF ValidArgs(api_in)
      THEN ~api_out[1].raises /\ api_out[1].requests = <<Endpoint(api_in)>>
      ELSE api_out[1].raises /\ api_out[1].requests = <<>>

\* set_speed was called with a multiple of ten above the highest speed, and
\* raised.
C8_Witness ==
    /\ api_in = SetSpeedCmd(70, FAN_TYPE_SUPPLY)
    /\ api_out = Some(Raises)

\* C9: a coordinator command with an argument the client rejects ends with
\* ValueError and the device has received no request at all.
C9_InvalidCommandNoDeviceContact ==
    (done # None /\ ~ValidArgs(done[1].cmd)) =>
      /\ done[1].outcome.cls = "ValueError"
      /\ Count(done[1].trace, DeviceCallKinds) = 0

\* The target of a switch or brightness command equals the cached value.
TargetCached(c, d) ==
    /\ d # None
    /\ \/ c.op = "set_switch" /\ c.sw \in valid_switches /\ d[1].sw[c.sw] = c.value
       \/ c.op = "set_brightness" /\ d[1].brightness = c.brightness

\* C10: a switch or brightness request whose target equals the cached value
\* starts no command cycle, and the call that skips changes nothing: no device
\* call, the lock untouched, the snapshot the same.
C10_SkipWhenCached ==
    [][/\ \A t \in Tasks :
            (pc[t] = "idle" /\ pc'[t] # "idle") => ~TargetCached(req'[t], data)
       /\ (done' # None /\ done'[1].outcome = Skipped) =>
            /\ TargetCached(done'[1].cmd, data)
            /\ UNCHANGED <<device, coordVars, lockVars, pc, req, trace, last_cmd, last_dev>>]_vars

\* Turning on a switch that the snapshot shows on was skipped, the lock free.
C10_Witness ==
    /\ done = Ended(Consumer, SetSwitchCmd("boost", TRUE), Skipped, <<>>, FALSE)
    /\ data # None
    /\ data[1].sw["boost"]
    /\ lock_owner = None

CycleSucceeded(d, ok) ==
    /\ d # None
    /\ d[1].outcome = Returned
    /\ Count(d[1].trace, {"write_ok"}) = 1
    /\ ok

\* C12: when a command cycle whose write and refresh both succeeded returns,
\* the snapshot is the device's state as read after the write, and the update
\* timer's refresh that stores its answer next does not put an older state in
\* its place.
C12_PostCommandSnapshotStays ==
    [][/\ CycleSucceeded(done', last_update_success') =>
            data' = Some(from_api_response(device'))
       /\ (CycleSucceeded(done, last_update_success) /\ PollPublish) =>
            data' = data]_vars

\* The steps of a cycle without the wait for the lock.
CycleSteps(tr) == IF tr # <<>> /\ tr[1] = "lock_wait" THEN Tail(tr) ELSE tr

\* C13: a task is inside a command cycle only while it holds the lock, and a
\* command that returns has made its steps in this order: the initial read,
\* the write attempts with a retry delay after each failed one, the write that
\* succeeded, the settle delay, the refresh read.  When the caller gets
\* control the refresh is over, its answer is the snapshot if it succeeded,
\* and the lock is no longer the caller's.
C13_CycleOrder ==
    /\ \A t \in Tasks :
         pc[t] \in {"get_state", "write", "retry_delay", "settle", "refresh", "publish"}
           => lock_owner = Some(t)
    /\ (done # None /\ done[1].outcome = Returned /\ done[1].cmd.op # "force_refresh") =>
         LET tr == CycleSteps(done[1].trace)
             n == Len(tr)
         IN /\ n >= 4
            /\ tr[1] = "get_state"
            /\ \A i \in 2..(n - 3) :
                 tr[i] = IF i % 2 = 0 THEN "write_failed" ELSE "retry_delay"
            /\ (n - 2) % 2 = 0
            /\ tr[n - 2] = "write_ok"
            /\ tr[n - 1] = "settle_delay"
            /\ tr[n] = "refresh"
            /\ last_update_success => data = Some(from_api_response(device))
            /\ lock_owner # Some(done[1].task)
            /\ pc[done[1].task] = "idle"

\* A command that had to wait for the lock returned after one failed write and
\* one that succeeded.
C13_Witness ==
    /\ done # None
    /\ done[1].outcome = Returned
    /\ done[1].trace = <<"lock_wait", "get_state", "write_failed", "retry_delay",
                         "write_ok", "settle_delay", "refresh">>

\* C14: every command that has to wait for the lock gets it, runs its cycle and
\* ends, returning or raising, when every device call and delay of the cycles
\* under way returns.
C14_CommandsNotDropped ==
    \A t \in Tasks :
      (pc[t] = "wait_lock") ~>
        (/\ done # None
         /\ done[1].task = t
         /\ done[1].outcome.kind \in {"returned", "raised"}
         /\ done[1].trace[1] = "lock_wait")

\* A command that waited for the lock has ended by raising.
C14_Witness ==
    /\ done # None
    /\ done[1].outcome.kind = "raised"
    /\ done[1].trace # <<>>
    /\ done[1].trace[1] = "lock_wait"
    /\ lock_owner = None

\* C15: no error of a device call is swallowed: a command cycle in which a
\* write failed, even one that a later attempt made good, ends by raising or
\* leaves the coordinator's last_exception set.
C15_NoErrorSwallowed ==
    (done # None /\ Count(done[1].trace, {"write_failed"}) > 0) =>
      \/ done[1].outcome.kind = "raised"
      \/ last_exception # None

\* The pairs (level, raw value) of the brightness mapping.
BrightnessPairs == {<<0, 0>>, <<1, 1>>, <<2, 2>>, <<3, 4>>, <<4, 8>>, <<5, 16>>, <<6, 32>>}

\* C16: the brightness mapping takes the levels 0..6 to the raw values 0, 1, 2,
\* 4, 8, 16, 32 and back: each level comes back from level to raw to level, each
\* of these raw values gives its level, and every other raw value gives level 6.
C16_BrightnessBijection ==
    api_out # None =>
      /\ (api_in.fn = "level_to_raw" /\ api_in.x \in 0..6) =>
           <<api_in.x, api_out[1].n>> \in BrightnessPairs
      /\ (api_in.fn = "level_round_trip" /\ api_in.x \in 0..6) => api_out[1].n = api_in.x
      /\ api_in.fn = "raw_to_level" =>
           IF \E pr \in BrightnessPairs : pr[2] = api_in.x
           THEN <<api_out[1].n, api_in.x>> \in BrightnessPairs
           ELSE api_out[1].n = 6

\* The raw value 7, which no level has, was turned into level 6.
C16_Witness ==
    /\ api_in = FnCall("raw_to_level", 7, 0, "-", "-")
    /\ api_out = Some(FnResult(6, FALSE, "-"))

\* C17: for speed 0, 10, ..., 60 up to max_speed > 0 the percentage is speed /
\* max_speed * 100 rounded to the nearest integer (either way at a half) and
\* lies in 0..100; for max_speed 0 it is 0.
C17_PercentageRounds ==
    (api_out # None /\ api_in.fn = "get_speed_percentage"
     /\ (api_in.y = 0 \/ api_in.x <= api_in.y)) =>
      LET speed == api_in.x
          max_speed == api_in.y
          pct == api_out[1].n
          d == pct * max_speed - speed * 100
      IN IF max_speed = 0 THEN pct = 0
         ELSE /\ 2 * (IF d < 0 THEN 0 - d ELSE d) <= max_speed
              /\ pct \in 0..100

\* C18: the snapshot parsed from a getState payload has its brightness among
\* 0, 1, 2, 4, 8, 16, 32, also when the payload has no brightness field.
C18_ParsedBrightnessValid ==
    (api_out # None /\ api_in.fn = "from_api_response") =>
      api_out[1].n \in {0, 1, 2, 4, 8, 16, 32}

\* C20: every outcome of a request has its class: a 2xx answer with a JSON body,
\* or an empty 2xx answer to a write, is success; unreachable or timed out is
\* PranaConnectionError; a non-2xx status or a body that cannot be read is
\* PranaApiError; any other transport error is one of the two.
C20_TransportClassified ==
    (api_out # None /\ api_in.fn = "_request") =>
      LET method == api_in.p
          o == api_in.q
          cls == api_out[1].c
      IN CASE o = "json" -> cls = "ok"
           [] o = "no_content" -> cls = IF method = "POST" THEN "ok" ELSE "PranaApiError"
           [] o \in {"connector", "timeout"} -> cls = "PranaConnectionError"
           [] o \in {"status", "bad_json"} -> cls = "PranaApiError"
           [] OTHER -> cls \in {"PranaApiError", "PranaConnectionError"}

\* C19: a snapshot that is there stays there, and it changes only as a whole,
\* to the answer of a read that succeeded, stored by the timer's refresh or by
\* the refresh of a command cycle; the initial read of a cycle and every read
\* that failed leave it as it is.
C19_SnapshotReplacedOnlyByRefresh ==
    [][/\ data # None => data' # None
       /\ data' # data =>
            \/ /\ PollPublish
               /\ poll_resp[1].cls = "ok"
               /\ data' = poll_resp[1].state
            \/ \E t \in Tasks :
                 /\ RefreshPublish(t)
                 /\ resp[t][1].cls = "ok"
                 /\ data' = resp[t][1].state
       /\ \A t \in Tasks : (InitialRead(t) \/ WriteAttempt(t)) => data' = data
       /\ (PollPublish /\ poll_resp[1].cls # "ok") => data' = data
       /\ \A t \in Tasks : (RefreshPublish(t) /\ resp[t][1].cls # "ok") => data' = data]_vars

\* The refresh of a command cycle failed and the snapshot, which a refresh
\* after a write had put there, is still in place.
C19_Witness ==
    /\ done # None
    /\ Count(done[1].trace, {"refresh"}) = 1
    /\ ~last_update_success
    /\ data # None
    /\ data[1].sw["boost"]

\* C21: an error of the initial read alone does not fail the command: no
\* command ends with the PranaConnectionError or PranaApiError of its initial
\* read, and every command with valid arguments that has ended made at least
\* one write attempt.
C21_InitialReadNotFatal ==
    (done # None /\ done[1].cmd.op \notin {"force_refresh", "none"}
     /\ done[1].outcome.kind # "skipped") =>
      LET d == done[1] IN
      /\ ~(d.outcome.kind = "raised" /\ d.outcome.origin = "get_state"
           /\ d.outcome.cls \in ApiErrors)
      /\ (ValidArgs(d.cmd) /\ d.outcome.cls \in ApiErrors \cup {"-"}) =>
           Count(d.trace, WriteKinds) > 0

\* C22: when all MAX_RETRIES write attempts of a cycle fail with
\* PranaConnectionError or PranaApiError, the error the caller gets is the one
\* raised by attempt number MAX_RETRIES, and the cycle took MAX_RETRIES - 1
\* retry delays: one right after each failed attempt but the last, which is
\* followed at once by the handler's refresh.
C22_LastErrorAndDelays ==
    (done # None /\ Count(done[1].trace, {"write_failed"}) = MAX_RETRIES) =>
      LET d == done[1]
          tr == CycleSteps(d.trace)
          fails == {i \in 1..Len(tr) : tr[i] = "write_failed"}
          last == CHOOSE i \in fails : \A j \in fails : j <= i
      IN /\ d.outcome = Raised(d.outcome.cls, "write", MAX_RETRIES)
         /\ d.outcome.cls \in ApiErrors
         /\ Count(tr, {"retry_delay"}) = MAX_RETRIES - 1
         /\ \A i \in fails \ {last} : tr[i + 1] = "retry_delay" /\ tr[i + 2] = "write_failed"
         /\ last < Len(tr)
         /\ tr[last + 1] = "refresh"

\* A command raised the PranaApiError of its third write attempt after two
\* retry delays.
C22_Witness ==
    /\ done # None
    /\ done[1].outcome = Raised("PranaApiError", "write", MAX_RETRIES)
    /\ done[1].trace = <<"get_state", "write_failed", "retry_delay", "write_failed",
                         "retry_delay", "write_failed", "refresh">>

Starts(t) ==
    /\ pc[t] = "idle"
    /\ \/ pc'[t] # "idle"
       \/ done' # None /\ done'[1].task = t /\ done'[1].outcome = Skipped

\* C24: a speed request for a level above 0 that the snapshot does not show
\* reached already (the fan on at that speed) issues the speed command first;
\* the fan-on command follows it if the snapshot showed the fan off when the
\* request started and is left out if it showed the fan on; the fan-on cycle
\* starts only when the speed cycle has returned, never when it raised.
C24_SpeedThenFanOn ==
    [][\A t \in Tasks :
         /\ (Starts(t) /\ api_in'.speed_level > 0) =>
              LET fan_type == api_in'.fan_type
                  api_speed == api_in'.speed_level * SPEED_STEP
                  on == data # None /\ is_fan_on(data[1], fan_type)
                  reached == on /\ data[1].speed[fan_type] = api_speed
              IN IF reached
                 THEN pc'[t] = "idle"
                 ELSE /\ pc'[t] # "idle"
                      /\ req'[t] = SetSpeedCmd(api_speed, fan_type)
                      /\ queue'[t] = IF on THEN <<>> ELSE <<SetFanOnCmd(TRUE, fan_type)>>
         /\ (req'[t] # req[t] /\ req'[t].op = "set_speed_is_on" /\ req'[t].value) =>
              /\ req[t].op = "set_speed"
              /\ done' # None
              /\ done'[1].cmd = req[t]
              /\ done'[1].outcome = Returned
              /\ Count(done'[1].trace, {"write_ok"}) = 1
         /\ (done' # None /\ done'[1].task = t /\ done'[1].cmd.op = "set_speed"
             /\ done'[1].outcome.kind = "raised") =>
              /\ pc'[t] = "idle"
              /\ req'[t] = NoCmd
              /\ queue'[t] = <<>>]_vars

\* C25: with one consumer, a device that applies every write it accepts and
\* keeps a fan's speed while the fan is off, and a snapshot equal to the
\* device's state when the request starts, a speed request for a level L in
\* 1..6 that ends without an error, skipped or returned, leaves the fan on at
\* speed SPEED_STEP * L.
C25_SpeedRequestTurnsOn ==
    (/\ done # None
     /\ done[1].outcome.kind \in {"returned", "skipped"}
     /\ ~done[1].more
     /\ api_in.speed_level \in 1..6
     /\ api_in.synced) =>
      /\ device.is_on[api_in.fan_type]
      /\ device.speed[api_in.fan_type] = SPEED_STEP * api_in.speed_level

\* C26: a speed request for level 0 never runs a speed command.  When the
\* snapshot shows the fan on at a level above 0 it runs one command cycle, the
\* one that turns the fan off, and nothing after it; when the snapshot shows
\* the fan off it returns at once: no device call, the lock untouched.
C26_LevelZeroTurnsOff ==
    [][\A t \in Tasks :
         /\ (Starts(t) /\ api_in'.speed_level = 0) =>
              LET fan_type == api_in'.fan_type
                  on == data # None /\ is_fan_on(data[1], fan_type)
                  level == IF data # None THEN speed_value_fn(data[1], fan_type) ELSE 0
              IN /\ (on /\ level # 0) =>
                      /\ pc'[t] # "idle"
                      /\ req'[t] = SetFanOnCmd(FALSE, fan_type)
                      /\ queue'[t] = <<>>
                 /\ ~on =>
                      /\ done' # None
                      /\ done'[1].outcome = Skipped
                      /\ UNCHANGED <<device, lockVars, pc, req, queue, trace, last_cmd, last_dev>>
         /\ (pc'[t] # "idle" /\ api_in'.speed_level = 0) =>
              /\ req'[t] = SetFanOnCmd(FALSE, api_in'.fan_type)
              /\ queue'[t] = <<>>
         /\ (done' # None /\ done'[1].task = t /\ done'[1].outcome # Skipped
             /\ api_in'.speed_level = 0) =>
              /\ done'[1].cmd = SetFanOnCmd(FALSE, api_in'.fan_type)
              /\ ~done'[1].more
              /\ pc'[t] = "idle"]_vars

\* A request for level 0 has turned off a fan that ran at speed 30, in one
\* cycle with one write.
C26_Witness ==
    /\ done # None
    /\ done[1].cmd = SetFanOnCmd(FALSE, FAN_TYPE_SUPPLY)
    /\ done[1].outcome = Returned
    /\ done[1].trace = <<"get_state", "write_ok", "settle_delay", "refresh">>
    /\ api_in.speed_level = 0
    /\ ~device.is_on[FAN_TYPE_SUPPLY]
    /\ device.speed[FAN_TYPE_SUPPLY] = 30

\* C27: of two requests for the same switch value made concurrently while the
\* snapshot shows the other value, one only reaches the device: the request
\* that gets the lock second finds the refreshed snapshot showing its target
\* and sends no write.  So no switch write is sent while the snapshot already
\* shows the value it sets.
C27_SecondRequestSkipped ==
    [][\A t \in Tasks :
         (WriteAttempt(t) /\ req[t].op = "set_switch"
          /\ CommandFunc(req[t]).requests # <<>>) =>
           ~TargetCached(req[t], data)]_vars

\* C28: the fan-on cycle of a speed request follows its speed cycle with no
\* cycle of another request between them: when the fan-on cycle makes its
\* first device call, the latest device call of any cycle is the one of the
\* same task (the refresh of its speed cycle), and the snapshot still shows
\* the fan off, which is what the request decided on.
C28_SpeedCyclesBackToBack ==
    [][\A t \in Tasks :
         (InitialRead(t) /\ req[t].op = "set_speed_is_on" /\ req[t].value) =>
           /\ last_cmd # None
           /\ last_cmd[1].task = t
           /\ data # None
           /\ ~is_fan_on(data[1], req[t].fan)]_vars

\* The steps of a command cycle, all made under the lock.
InCycle(t) == pc[t] \in {"get_state", "write", "retry_delay", "settle", "refresh", "publish"}

\* C29: every exit of a command cycle releases the lock.  The lock is held only
\* by a task inside a cycle; when no task is inside a cycle or waiting for one,
\* the lock is free and nobody is in line; a task whose command has ended,
\* returned or raised, no longer holds it; and a task waits only while another
\* one is inside its cycle, so a command that failed keeps no later one out.
C29_LockReleasedOnEveryExit ==
    /\ \A t \in Tasks : lock_owner = Some(t) => InCycle(t)
    /\ (\A t \in Tasks : pc[t] = "idle") => (lock_owner = None /\ lock_waiters = <<>>)
    /\ (done # None /\ done[1].outcome.kind \in {"returned", "raised"} /\ ~done[1].more) =>
         /\ lock_owner # Some(done[1].task)
         /\ pc[done[1].task] = "idle"
    /\ \A t \in Tasks : pc[t] = "wait_lock" => \E u \in Tasks : u # t /\ lock_owner = Some(u)

\* A command has ended with the ValueError of a rejected argument, and the
\* task that waited behind it holds the lock now.
C29_Witness ==
    /\ done # None
    /\ done[1].outcome = Raised("ValueError", "write", 1)
    /\ \E u \in Tasks :
         /\ u # done[1].task
         /\ lock_owner = Some(u)
         /\ trace[u] = <<"lock_wait">>

\* C30: async_force_refresh runs under the lock and is one device read: no
\* initial read, no write, no delay.  While it reads and stores the answer it
\* holds the lock and no other task is inside a command cycle, so its read
\* never falls between the first and the last device call of a cycle; it
\* returns whatever the read did.
C30_ForceRefreshUnderLock ==
    /\ \A t \in Tasks :
         req[t].op = "force_refresh" =>
           /\ pc[t] \in {"wait_lock", "refresh", "publish"}
           /\ pc[t] # "wait_lock" =>
                /\ lock_owner = Some(t)
                /\ \A u \in Tasks \ {t} : ~InCycle(u)
           /\ Count(trace[t], DeviceCallKinds) = IF pc[t] = "publish" THEN 1 ELSE 0
    /\ (done # None /\ done[1].cmd.op = "force_refresh") =>
         /\ CycleSteps(done[1].trace) = <<"refresh">>
         /\ done[1].outcome = Returned

\* A force refresh that had to wait for a command cycle has made its one read
\* and returned.
C30_Witness ==
    /\ done # None
    /\ done[1].cmd = ForceRefreshCmd
    /\ done[1].trace = <<"lock_wait", "refresh">>
    /\ done[1].outcome = Returned
    /\ last_cmd = Some([task |-> done[1].task, first |-> TRUE, end |-> "refresh"])

=============================================================================
